---------------------------- MODULE Spec2Model ----------------------------
(***************************************************************************)
(* Toy robot simulator (src/toy_robot_simulator.py).                       *)
(*                                                                         *)
(* Python strings are modelled as sequences of one-character strings, so   *)
(* that str.split, str.strip, str.upper, int() and the f-string of report  *)
(* are computed character by character.  An Optional value is a sequence   *)
(* of length at most one: None is << >> and a present value v is << v >>.  *)
(***************************************************************************)
EXTENDS Integers, Sequences, FiniteSets, TLC

VARIABLES x, y, direction, placed, command, result, raised, line, printed, pc,
          log

robot == <<x, y, direction, placed>>
vars == <<x, y, direction, placed, command, result, raised, line, printed, pc,
          log>>

None == << >>
Some(v) == << v >>

-----------------------------------------------------------------------------
(* Bounds of the model.                                                    *)

\* PLACE lines are generated for every coordinate in -Slack .. 4 + Slack.
Slack == 1

-----------------------------------------------------------------------------
(* class Direction(Enum)                                                   *)

Direction == {"NORTH", "EAST", "SOUTH", "WEST"}

DirectionValue == [NORTH |-> 0, EAST |-> 1, SOUTH |-> 2, WEST |-> 3]

\* Direction.<member>.name, as a Python string
DirectionName ==
    [NORTH |-> <<"N", "O", "R", "T", "H">>,
     EAST  |-> <<"E", "A", "S", "T">>,
     SOUTH |-> <<"S", "O", "U", "T", "H">>,
     WEST  |-> <<"W", "E", "S", "T">>]

\* Direction(v): the member whose value is v
DirectionOfValue(v) == CHOOSE d \in Direction : DirectionValue[d] = v

\* Direction[name]: Some(member), or None where Python raises KeyError
DirectionOfName(name) ==
    IF \E d \in Direction : DirectionName[d] = name
    THEN Some(CHOOSE d \in Direction : DirectionName[d] = name)
    ELSE None

-----------------------------------------------------------------------------
(* Python built-ins used by the program                                    *)

Whitespace == {" ", "\t"}

Digits == <<"0", "1", "2", "3", "4", "5", "6", "7", "8", "9">>

LowerCase == <<"a", "b", "c", "d", "e", "f", "g", "h", "i", "j", "k", "l", "m",
               "n", "o", "p", "q", "r", "s", "t", "u", "v", "w", "x", "y", "z">>

UpperCase == <<"A", "B", "C", "D", "E", "F", "G", "H", "I", "J", "K", "L", "M",
               "N", "O", "P", "Q", "R", "S", "T", "U", "V", "W", "X", "Y", "Z">>

IsDigit(c) == \E i \in 1..10 : Digits[i] = c

DigitValue(c) == (CHOOSE i \in 1..10 : Digits[i] = c) - 1

\* str.split() with no argument: the maximal runs of non-whitespace
RECURSIVE SplitWs(_, _, _, _)
SplitWs(s, i, cur, acc) ==
    IF i > Len(s)
    THEN IF cur = << >> THEN acc ELSE Append(acc, cur)
    ELSE IF s[i] \in Whitespace
         THEN SplitWs(s, i + 1, << >>, IF cur = << >> THEN acc ELSE Append(acc, cur))
         ELSE SplitWs(s, i + 1, Append(cur, s[i]), acc)

str_split(s) == SplitWs(s, 1, << >>, << >>)

\* str.split(sep): one more field than there are separators, fields may be empty
RECURSIVE SplitSep(_, _, _, _, _)
SplitSep(s, sep, i, cur, acc) ==
    IF i > Len(s)
    THEN Append(acc, cur)
    ELSE IF s[i] = sep
         THEN SplitSep(s, sep, i + 1, << >>, Append(acc, cur))
         ELSE SplitSep(s, sep, i + 1, Append(cur, s[i]), acc)

str_split_sep(s, sep) == SplitSep(s, sep, 1, << >>, << >>)

\* str.strip(): drop leading and trailing whitespace
RECURSIVE LStrip(_)
LStrip(s) == IF s # << >> /\ s[1] \in Whitespace THEN LStrip(Tail(s)) ELSE s

RECURSIVE RStrip(_)
RStrip(s) ==
    IF s # << >> /\ s[Len(s)] \in Whitespace
    THEN RStrip(SubSeq(s, 1, Len(s) - 1))
    ELSE s

str_strip(s) == RStrip(LStrip(s))

\* the line passed on without upper()
str_upper_missing(s) == s

\* str.upper()
UpperChar(c) ==
    IF \E i \in 1..26 : LowerCase[i] = c
    THEN UpperCase[CHOOSE i \in 1..26 : LowerCase[i] = c]
    ELSE c

str_upper(s) == [i \in 1..Len(s) |-> UpperChar(s[i])]

\* int(s): an optional sign, then digits, single underscores allowed between
\* digits.  Some(value), or None where Python raises ValueError.
IntBody(s) == IF s # << >> /\ s[1] \in {"+", "-"} THEN Tail(s) ELSE s

IntWellFormed(s) ==
    LET b == IntBody(s) IN
    /\ b # << >>
    /\ \A i \in 1..Len(b) : IsDigit(b[i]) \/ b[i] = "_"
    /\ IsDigit(b[1])
    /\ IsDigit(b[Len(b)])
    /\ \A i \in 1..(Len(b) - 1) : ~(b[i] = "_" /\ b[i + 1] = "_")

RECURSIVE IntMagnitude(_, _, _)
IntMagnitude(b, i, acc) ==
    IF i > Len(b)
    THEN acc
    ELSE IF b[i] = "_"
         THEN IntMagnitude(b, i + 1, acc)
         ELSE IntMagnitude(b, i + 1, 10 * acc + DigitValue(b[i]))

int(s) ==
    IF IntWellFormed(s)
    THEN Some(IF s[1] = "-"
              THEN 0 - IntMagnitude(IntBody(s), 1, 0)
              ELSE IntMagnitude(IntBody(s), 1, 0))
    ELSE None

\* str(n) as the f-string of report formats an int: base 10, "-" when negative
RECURSIVE NatStr(_)
NatStr(n) ==
    IF n < 10
    THEN <<Digits[n + 1]>>
    ELSE Append(NatStr(n \div 10), Digits[(n % 10) + 1])

str(n) == IF n < 0 THEN <<"-">> \o NatStr(0 - n) ELSE NatStr(n)

-----------------------------------------------------------------------------
(* String literals of the program                                          *)

PLACE  == <<"P", "L", "A", "C", "E">>
MOVE   == <<"M", "O", "V", "E">>
LEFT   == <<"L", "E", "F", "T">>
RIGHT  == <<"R", "I", "G", "H", "T">>
REPORT == <<"R", "E", "P", "O", "R", "T">>
EXIT   == <<"E", "X", "I", "T">>

InvalidPlaceCommand ==
    <<"I", "n", "v", "a", "l", "i", "d", " ", "P", "L", "A", "C", "E", " ",
      "c", "o", "m", "m", "a", "n", "d">>

InvalidCommand ==
    <<"I", "n", "v", "a", "l", "i", "d", " ", "c", "o", "m", "m", "a", "n", "d">>

RobotNotPlaced ==
    <<"R", "o", "b", "o", "t", " ", "n", "o", "t", " ", "p", "l", "a", "c", "e", "d",
      " ", "o", "n", " ", "t", "h", "e", " ", "t", "a", "b", "l", "e">>

-----------------------------------------------------------------------------
(* class ToyRobot                                                          *)

\* ToyRobot.__init__
RobotInit ==
    /\ x = None
    /\ y = None
    /\ direction = None
    /\ placed = FALSE

\* is_valid_position with the upper bound compared by <= instead of <
is_valid_position_inclusive(px, py) == (0 <= px /\ px <= 5) /\ (0 <= py /\ py <= 5)

\* is_valid_position without the lower bounds
is_valid_position_no_lower(px, py) == px < 5 /\ py < 5

\* ToyRobot.is_valid_position
is_valid_position(px, py) == (0 <= px /\ px < 5) /\ (0 <= py /\ py < 5)

\* place with the placed flag set outside the if
place_flag_always(px, py, d) ==
    IF is_valid_position(px, py)
    THEN /\ x' = Some(px)
         /\ y' = Some(py)
         /\ direction' = Some(d)
         /\ placed' = TRUE
    ELSE /\ placed' = TRUE
         /\ UNCHANGED <<x, y, direction>>

\* place that takes the robot off the table on an invalid position
place_else_unplaced(px, py, d) ==
    IF is_valid_position(px, py)
    THEN /\ x' = Some(px)
         /\ y' = Some(py)
         /\ direction' = Some(d)
         /\ placed' = TRUE
    ELSE /\ x' = None
         /\ y' = None
         /\ direction' = None
         /\ placed' = FALSE

\* place with the two coordinates assigned the wrong way round
place_swapped(px, py, d) ==
    IF is_valid_position(px, py)
    THEN /\ x' = Some(py)
         /\ y' = Some(px)
         /\ direction' = Some(d)
         /\ placed' = TRUE
    ELSE UNCHANGED robot

\* place with the direction assigned before the position is validated
place_direction_first(px, py, d) ==
    IF is_valid_position(px, py)
    THEN /\ x' = Some(px)
         /\ y' = Some(py)
         /\ direction' = Some(d)
         /\ placed' = TRUE
    ELSE /\ direction' = IF placed THEN Some(d) ELSE direction
         /\ UNCHANGED <<x, y, placed>>

\* ToyRobot.place
place(px, py, d) ==
    IF is_valid_position(px, py)
    THEN /\ x' = Some(px)
         /\ y' = Some(py)
         /\ direction' = Some(d)
         /\ placed' = TRUE
    ELSE UNCHANGED robot

\* the table with the deltas of NORTH and SOUTH exchanged
moves_swapped ==
    [NORTH |-> <<0, -1>>, EAST |-> <<1, 0>>, SOUTH |-> <<0, 1>>, WEST |-> <<-1, 0>>]

\* the table  moves  of ToyRobot._get_new_position
moves ==
    [NORTH |-> <<0, 1>>, EAST |-> <<1, 0>>, SOUTH |-> <<0, -1>>, WEST |-> <<-1, 0>>]

\* _get_new_position stepping backwards
get_new_position_backwards ==
    LET dx == moves[direction[1]][1]
        dy == moves[direction[1]][2]
    IN  <<x[1] - dx, y[1] - dy>>

\* ToyRobot._get_new_position; called only when the robot is placed
get_new_position ==
    LET dx == moves[direction[1]][1]
        dy == moves[direction[1]][2]
    IN  <<x[1] + dx, y[1] + dy>>

\* ToyRobot.move
move ==
    IF ~placed
    THEN UNCHANGED robot
    ELSE LET new == get_new_position IN
         IF is_valid_position(new[1], new[2])
         THEN /\ x' = Some(new[1])
              /\ y' = Some(new[2])
              /\ UNCHANGED <<direction, placed>>
         ELSE UNCHANGED robot

\* rotate that takes a missing direction for NORTH instead of returning
rotate_default_direction(clockwise) ==
    LET rotation == IF clockwise THEN 1 ELSE -1
        value == IF direction = None THEN 0 ELSE DirectionValue[direction[1]]
    IN  /\ direction' = Some(DirectionOfValue((value + rotation) % 4))
        /\ UNCHANGED <<x, y, placed>>

\* rotate with the two senses of rotation exchanged
rotate_inverted(clockwise) ==
    IF placed
    THEN LET rotation == IF clockwise THEN -1 ELSE 1 IN
         /\ direction' =
                Some(DirectionOfValue((DirectionValue[direction[1]] + rotation) % 4))
         /\ UNCHANGED <<x, y, placed>>
    ELSE UNCHANGED robot

\* rotate turning two steps at a time
rotate_half_turn(clockwise) ==
    IF placed
    THEN LET rotation == IF clockwise THEN 2 ELSE -2 IN
         /\ direction' =
                Some(DirectionOfValue((DirectionValue[direction[1]] + rotation) % 4))
         /\ UNCHANGED <<x, y, placed>>
    ELSE UNCHANGED robot

\* rotate turning clockwise whatever the argument
rotate_always_clockwise(clockwise) ==
    IF placed
    THEN /\ direction' =
                Some(DirectionOfValue((DirectionValue[direction[1]] + 1) % 4))
         /\ UNCHANGED <<x, y, placed>>
    ELSE UNCHANGED robot

\* ToyRobot.rotate
rotate(clockwise) ==
    IF placed
    THEN LET rotation == IF clockwise THEN 1 ELSE -1 IN
         /\ direction' =
                Some(DirectionOfValue((DirectionValue[direction[1]] + rotation) % 4))
         /\ UNCHANGED <<x, y, placed>>
    ELSE UNCHANGED robot

\* report with the two coordinates written the wrong way round
report_swapped ==
    IF placed
    THEN str(y[1]) \o <<",">> \o str(x[1]) \o <<",">> \o DirectionName[direction[1]]
    ELSE RobotNotPlaced

\* ToyRobot.report
report ==
    IF placed
    THEN str(x[1]) \o <<",">> \o str(y[1]) \o <<",">> \o DirectionName[direction[1]]
    ELSE RobotNotPlaced

-----------------------------------------------------------------------------
(* Command lines fed to the program                                        *)

Coords == (0 - Slack)..(4 + Slack)

\* the argument token "a,b,D"
PlaceArg(a, b, d) == str(a) \o <<",">> \o str(b) \o <<",">> \o DirectionName[d]

\* the line "PLACE a,b,D"
PlaceLine(a, b, d) == PLACE \o <<" ">> \o PlaceArg(a, b, d)

\* "PLACE a,b,D" for every coordinate pair of Coords and every direction
PlaceLines == { PlaceLine(a, b, d) : a \in Coords, b \in Coords, d \in Direction }

\* PLACE lines whose argument does not parse
MalformedPlaceLines ==
    { <<"P", "L", "A", "C", "E">>,
      <<"P", "L", "A", "C", "E", " ", "1", ",", "2">>,
      <<"P", "L", "A", "C", "E", " ", "1", ",", "2", ",", "N", "O", "R", "T", "H", ",", "3">>,
      <<"P", "L", "A", "C", "E", " ", "A", ",", "2", ",", "N", "O", "R", "T", "H">>,
      <<"P", "L", "A", "C", "E", " ", "1", ",", "B", ",", "N", "O", "R", "T", "H">>,
      <<"P", "L", "A", "C", "E", " ", ",", "2", ",", "N", "O", "R", "T", "H">>,
      <<"P", "L", "A", "C", "E", " ", "1", ",", "1", ",", "N", "O", "R", "T", "H", "X">>,
      <<"P", "L", "A", "C", "E", " ", "1", ",", "1", ",", "n", "o", "r", "t", "h">>,
      <<"P", "L", "A", "C", "E", " ", "1", ",", "1", ",">>,
      <<"P", "L", "A", "C", "E", " ", "1", ",", " ", "2", ",", "N", "O", "R", "T", "H">>,
      <<"P", "L", "A", "C", "E", " ", "1", ".", "5", ",", "2", ",", "N", "O", "R", "T", "H">>,
      <<"P", "L", "A", "C", "E", " ", "9", ",", "9", ",", "U", "P">>,
      <<"P", "L", "A", "C", "E", " ", "1", ",", "-", ",", "E", "A", "S", "T">>,
      <<"P", "L", "A", "C", "E", " ", "1", "_", "_", "0", ",", "0", ",", "E", "A", "S", "T">>,
      <<"P", "L", "A", "C", "E", " ", "_", "1", ",", "0", ",", "E", "A", "S", "T">>,
      <<"P", "L", "A", "C", "E", " ", "1", ",", "1", ",", "N", "O", "R", "T", "H", "X",
        " ", "E", "X", "T", "R", "A">> }

\* PLACE lines that parse although the integers are not written canonically
UnusualPlaceLines ==
    { <<"P", "L", "A", "C", "E", " ", "+", "1", ",", "2", ",", "N", "O", "R", "T", "H">>,
      <<"P", "L", "A", "C", "E", " ", "0", "1", ",", "2", ",", "E", "A", "S", "T">>,
      <<"P", "L", "A", "C", "E", " ", "-", "0", ",", "0", ",", "S", "O", "U", "T", "H">>,
      <<"P", "L", "A", "C", "E", " ", "1", "_", "0", ",", "0", ",", "W", "E", "S", "T">>,
      <<"P", "L", "A", "C", "E", " ", "0", "_", "3", ",", "4", ",", "W", "E", "S", "T">>,
      <<"P", "L", "A", "C", "E", "\t", "0", ",", "0", ",", "N", "O", "R", "T", "H">> }

\* lines with further tokens after a complete command
ExtraTokenLines ==
    { <<"P", "L", "A", "C", "E", " ", "1", ",", "2", ",", "N", "O", "R", "T", "H",
        " ", "E", "X", "T", "R", "A">>,
      <<"P", "L", "A", "C", "E", " ", "3", ",", "3", ",", "S", "O", "U", "T", "H",
        " ", "0", ",", "0", ",", "E", "A", "S", "T">>,
      <<"P", "L", "A", "C", "E", " ", "5", ",", "5", ",", "N", "O", "R", "T", "H",
        " ", "E", "X", "T", "R", "A">>,
      <<"M", "O", "V", "E", " ", "E", "X", "T", "R", "A">>,
      <<"R", "E", "P", "O", "R", "T", " ", "N", "O", "W">>,
      <<"L", "E", "F", "T", " ", "1", ",", "1", ",", "E", "A", "S", "T">> }

SimpleLines ==
    { MOVE, LEFT, RIGHT, REPORT,
      <<" ", " ", "M", "O", "V", "E", " ">>,
      <<"\t", "R", "E", "P", "O", "R", "T">> }

\* lines whose first token is no command tag, and lines without any token
OtherLines ==
    { <<"J", "U", "M", "P">>,
      <<"m", "o", "v", "e">>,
      <<"R", "e", "p", "o", "r", "t">>,
      <<"l", "e", "f", "t">>,
      <<"r", "I", "G", "H", "T">>,
      <<"p", "l", "a", "c", "e", " ", "1", ",", "1", ",", "N", "O", "R", "T", "H">>,
      <<"p", "l", "a", "c", "e", " ", "2", ",", "3", ",", "w", "e", "s", "t">>,
      EXIT,
      <<"e", "x", "i", "t">>,
      <<" ", "E", "X", "I", "T", " ">>,
      << >>,
      <<" ">> }

Lines ==
    PlaceLines \cup MalformedPlaceLines \cup UnusualPlaceLines \cup ExtraTokenLines
        \cup SimpleLines \cup OtherLines

-----------------------------------------------------------------------------
(* process_command                                                         *)

\* the try block reading the first three fields instead of unpacking exactly three
place_args_lenient(parts) ==
    IF Len(parts) < 2
    THEN [exc |-> "IndexError"]
    ELSE LET fields == str_split_sep(parts[2], ",") IN
         IF Len(fields) < 3
         THEN [exc |-> "IndexError"]
         ELSE IF int(fields[1]) = None \/ int(fields[2]) = None
              THEN [exc |-> "ValueError"]
              ELSE IF DirectionOfName(fields[3]) = None
                   THEN [exc |-> "KeyError"]
                   ELSE [exc |-> "None",
                         px |-> int(fields[1])[1],
                         py |-> int(fields[2])[1],
                         d |-> DirectionOfName(fields[3])[1]]

\* the try block rejecting coordinates off the table as a ValueError
place_args_bounds(parts) ==
    IF Len(parts) < 2
    THEN [exc |-> "IndexError"]
    ELSE LET fields == str_split_sep(parts[2], ",") IN
         IF Len(fields) # 3
         THEN [exc |-> "ValueError"]
         ELSE IF int(fields[1]) = None \/ int(fields[2]) = None
              THEN [exc |-> "ValueError"]
              ELSE IF ~is_valid_position(int(fields[1])[1], int(fields[2])[1])
                   THEN [exc |-> "ValueError"]
                   ELSE IF DirectionOfName(fields[3]) = None
                        THEN [exc |-> "KeyError"]
                        ELSE [exc |-> "None",
                              px |-> int(fields[1])[1],
                              py |-> int(fields[2])[1],
                              d |-> DirectionOfName(fields[3])[1]]

\* The try block up to the call of robot.place: the exception raised there,
\* or the three arguments of place.
place_args(parts) ==
    IF Len(parts) < 2
    THEN [exc |-> "IndexError"]
    ELSE LET fields == str_split_sep(parts[2], ",") IN
         IF Len(fields) # 3
         THEN [exc |-> "ValueError"]
         ELSE IF int(fields[1]) = None \/ int(fields[2]) = None
              THEN [exc |-> "ValueError"]
              ELSE IF DirectionOfName(fields[3]) = None
                   THEN [exc |-> "KeyError"]
                   ELSE [exc |-> "None",
                         px |-> int(fields[1])[1],
                         py |-> int(fields[2])[1],
                         d |-> DirectionOfName(fields[3])[1]]

\* A call of process_command: the argument  command  together with the values
\* the function computes from it alone, parts = command.split() and the
\* outcome of the try block up to the call of robot.place.
CallOf(c) ==
    [command |-> c, parts |-> str_split(c), args |-> place_args(str_split(c))]

\* the calls of process_command on the lines themselves
Calls == { CallOf(c) : c \in Lines }

process_command(call) ==
    /\ command' = Some(call.command)
    /\ IF Len(call.parts) = 0
       THEN \* parts[0] raises IndexError outside the try block
            /\ raised' = Some("IndexError")
            /\ result' = None
            /\ UNCHANGED robot
       ELSE /\ raised' = None
            /\ IF call.parts[1] = PLACE
               THEN IF call.args.exc = "None"
                    THEN /\ place(call.args.px, call.args.py, call.args.d)
                         /\ result' = None
                    ELSE /\ result' = Some(InvalidPlaceCommand)
                         /\ UNCHANGED robot
               ELSE IF call.parts[1] = MOVE
               THEN /\ move
                    /\ result' = None
               ELSE IF call.parts[1] = LEFT
               THEN /\ rotate(FALSE)
                    /\ result' = None
               ELSE IF call.parts[1] = RIGHT
               THEN /\ rotate(TRUE)
                    /\ result' = None
               ELSE IF call.parts[1] = REPORT
               THEN /\ result' = Some(report)
                    /\ UNCHANGED robot
               ELSE /\ result' = Some(InvalidCommand)
                    /\ UNCHANGED robot

-----------------------------------------------------------------------------
(* The robot driven by direct calls of process_command                     *)

Init ==
    /\ RobotInit
    /\ command = None
    /\ result = None
    /\ raised = None
    /\ line = None
    /\ printed = None
    /\ pc = "loop"
    /\ log = << >>

Call(call) ==
    /\ process_command(call)
    /\ UNCHANGED <<line, printed, pc, log>>

Next == \E call \in Calls : Call(call)

Spec == Init /\ [][Next]_vars

-----------------------------------------------------------------------------
(* main: the read loop                                                     *)

\* an input line with command = input().strip().upper() and the call of
\* process_command on that command
Inputs ==
    { [line |-> l, call |-> CallOf(str_upper(str_strip(l)))] : l \in Lines }

\* one iteration of the while loop on the input  in ;  printed  is the line
\* this iteration wrote to standard output, if any
MainStep(in) ==
    /\ pc = "loop"
    /\ line' = Some(in.line)
    /\ IF in.call.command = EXIT
       THEN /\ command' = Some(in.call.command)
            /\ pc' = "exited"
            /\ printed' = None
            /\ UNCHANGED <<robot, result, raised>>
       ELSE /\ process_command(in.call)
            /\ pc' = IF raised' # None THEN "crashed" ELSE "loop"
            \* if result: print(result)
            /\ printed' = IF raised' = None /\ result' # None /\ result'[1] # << >>
                          THEN result'
                          ELSE None
    /\ UNCHANGED log

MainNext == \E in \in Inputs : MainStep(in)

MainSpec == Init /\ [][MainNext]_vars

-----------------------------------------------------------------------------
(* Both entry points: a robot driven by direct calls of process_command    *)
(* (pc = "call"), or a robot owned by the read loop of main (pc = "loop")  *)

ProgramInit ==
    /\ RobotInit
    /\ command = None
    /\ result = None
    /\ raised = None
    /\ line = None
    /\ printed = None
    /\ pc \in {"call", "loop"}
    /\ log = << >>

DirectCall == pc = "call" /\ Next

ProgramNext == DirectCall \/ MainNext

ProgramSpec == ProgramInit /\ [][ProgramNext]_vars

-----------------------------------------------------------------------------
(* Sequences of calls on one fresh robot;  log  keeps, for each call made, *)
(* the command, the robot before the call and the value returned           *)

MaxTurns == 4
MaxScenario == 6

LoggedCall(call) ==
    /\ process_command(call)
    /\ log' = Append(log, [command |-> call.command,
                           x |-> x, y |-> y,
                           direction |-> direction, placed |-> placed,
                           result |-> result'])
    /\ UNCHANGED <<line, printed, pc>>

\* robot = ToyRobot(), then at most one PLACE on the table, then only LEFT
\* and RIGHT, at most MaxTurns of them
PlaceCalls == { CallOf(PlaceLine(a, b, d)) : a \in 0..4, b \in 0..4, d \in Direction }
TurnCalls == { CallOf(LEFT), CallOf(RIGHT) }

Turns == Len(SelectSeq(log, LAMBDA e : e.command \in {LEFT, RIGHT}))

RotationPlace == \E call \in PlaceCalls : log = << >> /\ LoggedCall(call)

RotationTurn == \E call \in TurnCalls : Turns < MaxTurns /\ LoggedCall(call)

RotationNext == RotationPlace \/ RotationTurn

RotationSpec == Init /\ [][RotationNext]_vars

\* robot = ToyRobot(), then at most MaxScenario calls drawn from the
\* commands of the two scenarios
ScenarioCalls ==
    { CallOf(PlaceLine(1, 2, "EAST")), CallOf(PlaceLine(0, 0, "NORTH")),
      CallOf(MOVE), CallOf(LEFT), CallOf(REPORT) }

ScenarioNext == \E call \in ScenarioCalls : Len(log) < MaxScenario /\ LoggedCall(call)

ScenarioSpec == Init /\ [][ScenarioNext]_vars

-----------------------------------------------------------------------------
(* Properties                                                              *)

\* the command the last call of process_command was given, if any
Processed(S) == command # None /\ command[1] \in S
ProcessedNext(S) == command' # None /\ command'[1] \in S

OnTable == 0..4

\* C1: in every reachable state, a placed robot has 0 <= x <= 4 and
\* 0 <= y <= 4.
C1_PlacedWithinTable ==
    placed => /\ x # None /\ x[1] \in OnTable
              /\ y # None /\ y[1] \in OnTable

\* a robot in the far corner, the last command being a MOVE towards the edge
C1_Witness ==
    /\ Processed({MOVE})
    /\ placed /\ x = Some(4) /\ y = Some(4) /\ direction = Some("EAST")

\* C2: position and orientation are both absent or both present, and the
\* placed flag is true exactly when both are present.
C2_NoPartialState ==
    /\ (x = None) <=> (y = None)
    /\ (x = None) <=> (direction = None)
    /\ placed <=> (x # None /\ y # None /\ direction # None)

\* a placed robot, all three fields present, after a PLACE that does not parse
C2_Witness ==
    /\ Processed(MalformedPlaceLines)
    /\ placed /\ x # None /\ y # None /\ direction # None

\* the PLACE commands whose coordinates parse to a position on the table
ValidPlaceCommands ==
    { call.command :
        call \in { k \in Calls : /\ Len(k.parts) >= 2
                                 /\ k.parts[1] = PLACE
                                 /\ k.args.exc = "None"
                                 /\ k.args.px \in OnTable
                                 /\ k.args.py \in OnTable } }

\* C3: the robot starts unplaced, becomes placed only by a PLACE command
\* whose target is on the table, and no command returns a placed robot to
\* the unplaced state.
C3_PlacedLifecycle ==
    /\ ~placed
    /\ [][ /\ placed => placed'
           /\ (~placed /\ placed') => ProcessedNext(ValidPlaceCommands) ]_vars

\* a placed robot that has since been given an out-of-bounds PLACE
C3_Witness ==
    /\ Processed({PlaceLine(5, 5, "NORTH"), PlaceLine(-1, 0, "EAST")})
    /\ placed

\* C4: while the robot is unplaced MOVE, LEFT and RIGHT change nothing: the
\* robot stays unplaced without position and orientation, and REPORT
\* returns "Robot not placed on the table".
C4_UnplacedNoOp ==
    [][ /\ (~placed /\ ProcessedNext({MOVE, LEFT, RIGHT}))
             => (~placed' /\ x' = None /\ y' = None /\ direction' = None)
        /\ (~placed /\ ProcessedNext({REPORT}))
             => (result' = Some(RobotNotPlaced) /\ ~placed') ]_vars

\* a robot that is still unplaced after LEFT
C4_Witness ==
    /\ Processed({LEFT})
    /\ ~placed /\ x = None /\ y = None /\ direction = None
    /\ result = None

\* the lines "PLACE a,b,D" with a and b in 0..4, and the placement each asks for
OnTablePlaceLines ==
    { PlaceLine(a, b, d) : a \in OnTable, b \in OnTable, d \in Direction }

Asked ==
    [c \in OnTablePlaceLines |->
        CHOOSE t \in OnTable \X OnTable \X Direction : c = PlaceLine(t[1], t[2], t[3])]

AskedArg == [c \in OnTablePlaceLines |-> PlaceArg(Asked[c][1], Asked[c][2], Asked[c][3])]

\* C5: PLACE a,b,D with a and b in 0..4, in any prior state, sets the
\* position to (a, b) and the orientation to D; a report in the resulting
\* state, and the REPORT command issued next, return "a,b,D".
C5_PlaceThenReport ==
    [][ /\ ProcessedNext(OnTablePlaceLines)
             => /\ x' = Some(Asked[command'[1]][1])
                /\ y' = Some(Asked[command'[1]][2])
                /\ direction' = Some(Asked[command'[1]][3])
                /\ placed'
                /\ report' = AskedArg[command'[1]]
        /\ (Processed(OnTablePlaceLines) /\ ProcessedNext({REPORT}))
             => result' = Some(AskedArg[command[1]]) ]_vars

\* REPORT answered right after PLACE 4,0,WEST
C5_Witness ==
    /\ Processed({REPORT})
    /\ result = Some(<<"4", ",", "0", ",", "W", "E", "S", "T">>)
    /\ x = Some(4) /\ y = Some(0) /\ direction = Some("WEST")

\* PLACE lines with integer coordinates of which at least one is off the table
OutOfBoundsPlaceLines ==
    { PlaceLine(a, b, d) : a \in Coords, b \in Coords, d \in Direction }
        \ OnTablePlaceLines

\* C6: a PLACE with integer coordinates outside 0..4 leaves position,
\* orientation and placed flag as they were.
C6_OutOfBoundsPlaceIgnored ==
    [][ ProcessedNext(OutOfBoundsPlaceLines) => UNCHANGED robot ]_vars

\* a robot facing WEST that was given PLACE -1,2,EAST or PLACE 3,5,EAST
C6_Witness ==
    /\ Processed({PlaceLine(-1, 2, "EAST"), PlaceLine(3, 5, "EAST")})
    /\ placed /\ direction = Some("WEST")

\* the cell one unit away from (a, b) in direction d
Ahead(a, b, d) ==
    CASE d = "NORTH" -> <<a, b + 1>>
      [] d = "EAST"  -> <<a + 1, b>>
      [] d = "SOUTH" -> <<a, b - 1>>
      [] d = "WEST"  -> <<a - 1, b>>

Abs(n) == IF n < 0 THEN 0 - n ELSE n

\* C7: MOVE on a placed robot at (x, y) facing d yields the cell ahead when
\* that cell is on the table and the same cell otherwise; the orientation is
\* unchanged and the position changes by at most one unit along one axis.
C7_MoveOneUnit ==
    [][ (placed /\ ProcessedNext({MOVE}))
          => LET target == Ahead(x[1], y[1], direction[1]) IN
             /\ IF target[1] \in OnTable /\ target[2] \in OnTable
                THEN x' = Some(target[1]) /\ y' = Some(target[2])
                ELSE x' = x /\ y' = y
             /\ direction' = direction
             /\ placed'
             /\ Abs(x'[1] - x[1]) + Abs(y'[1] - y[1]) <= 1 ]_vars

\* facing NORTH in row 4 after a MOVE: the robot arrived there or was blocked
C7_Witness ==
    /\ Processed({MOVE})
    /\ placed /\ x = Some(0) /\ y = Some(4) /\ direction = Some("NORTH")

Clockwise == [NORTH |-> "EAST", EAST |-> "SOUTH", SOUTH |-> "WEST", WEST |-> "NORTH"]

CounterClockwise ==
    [NORTH |-> "WEST", WEST |-> "SOUTH", SOUTH |-> "EAST", EAST |-> "NORTH"]

\* C8: on a placed robot RIGHT turns the orientation to its clockwise
\* successor and LEFT to its counter-clockwise predecessor; the position is
\* unchanged.
C8_Rotate ==
    [][ /\ (placed /\ ProcessedNext({RIGHT}))
             => /\ direction' = Some(Clockwise[direction[1]])
                /\ UNCHANGED <<x, y, placed>>
        /\ (placed /\ ProcessedNext({LEFT}))
             => /\ direction' = Some(CounterClockwise[direction[1]])
                /\ UNCHANGED <<x, y, placed>> ]_vars

\* a robot in the corner (0,0) facing WEST after LEFT
C8_Witness ==
    /\ Processed({LEFT})
    /\ placed /\ x = Some(0) /\ y = Some(0) /\ direction = Some("WEST")

\* C9: a PLACE line whose argument does not parse returns
\* "Invalid PLACE command" and leaves the robot as it was.
C9_MalformedPlace ==
    [][ ProcessedNext(MalformedPlaceLines)
          => /\ result' = Some(InvalidPlaceCommand)
             /\ raised' = None
             /\ UNCHANGED robot ]_vars

\* a placed robot that was given PLACE 1,1,NORTHX
C9_Witness ==
    /\ Processed({<<"P", "L", "A", "C", "E", " ", "1", ",", "1", ",",
                    "N", "O", "R", "T", "H", "X">>})
    /\ result = Some(InvalidPlaceCommand)
    /\ placed

\* PLACE lines with a well-formed argument followed by a further token
ExtraTokenPlaceLines ==
    { c \in ExtraTokenLines : Len(c) >= 5 /\ SubSeq(c, 1, 5) = PLACE }

\* C10: a PLACE line with two or more tokens after the tag returns
\* "Invalid PLACE command" and neither places nor moves the robot.
C10_ExtraTokenRejected ==
    [][ ProcessedNext(ExtraTokenPlaceLines)
          => /\ result' = Some(InvalidPlaceCommand)
             /\ UNCHANGED robot ]_vars

\* lines without any token, and lines whose first token is no command tag
BlankLines == { << >>, <<" ">> }

UnknownTagLines == OtherLines \ BlankLines

\* C11: a line whose first token is none of PLACE, MOVE, LEFT, RIGHT, REPORT,
\* and likewise an empty or whitespace-only line, returns "Invalid command"
\* and leaves the robot unchanged.
C11_UnknownOrEmptyLine ==
    [][ ProcessedNext(UnknownTagLines \cup BlankLines)
          => /\ result' = Some(InvalidCommand)
             /\ raised' = None
             /\ UNCHANGED robot ]_vars

\* C12: process_command never raises to its caller: every call completes and
\* returns nothing or a string.
C12_NeverRaises == raised = None

\* the lines that consist of the REPORT tag alone
ReportLines == { REPORT, <<"\t", "R", "E", "P", "O", "R", "T">> }

DecimalDigit == <<"0", "1", "2", "3", "4">>

\* C13: REPORT returns "x,y,NAME" of the current position and orientation
\* when the robot is placed and "Robot not placed on the table" when it is
\* not; it changes nothing, and a REPORT after a REPORT returns the same.
C13_ReportPureQuery ==
    [][ /\ ProcessedNext(ReportLines)
             => /\ result' =
                     Some(IF placed
                          THEN <<DecimalDigit[x[1] + 1], ",", DecimalDigit[y[1] + 1], ",">>
                                   \o DirectionName[direction[1]]
                          ELSE RobotNotPlaced)
                /\ raised' = None
                /\ UNCHANGED robot
        /\ (Processed(ReportLines) /\ ProcessedNext(ReportLines))
             => result' = result ]_vars

\* REPORT answered for a robot at (2,3) facing SOUTH
C13_Witness ==
    /\ Processed(ReportLines)
    /\ result = Some(<<"2", ",", "3", ",", "S", "O", "U", "T", "H">>)
    /\ placed /\ x = Some(2) /\ y = Some(3) /\ direction = Some("SOUTH")

\* MOVE, LEFT, RIGHT and the PLACE lines whose argument parses
SilentLines ==
    { MOVE, LEFT, RIGHT, <<" ", " ", "M", "O", "V", "E", " ">> }
        \cup PlaceLines \cup UnusualPlaceLines

\* C14: MOVE, LEFT, RIGHT and every PLACE whose argument parses return
\* nothing in every state, on or off the table, blocked or not; one of the
\* two diagnostic strings is returned only for an unknown tag or a PLACE
\* argument that does not parse.
C14_TwoTierOutput ==
    [][ /\ ProcessedNext(SilentLines) => (result' = None /\ raised' = None)
        /\ (result' # None /\ result'[1] \in {InvalidPlaceCommand, InvalidCommand})
             => ProcessedNext(MalformedPlaceLines \cup UnknownTagLines) ]_vars

\* an unplaced robot given PLACE 0,-1,SOUTH: rejected without a diagnostic
C14_Witness ==
    /\ Processed({PlaceLine(0, -1, "SOUTH")})
    /\ result = None /\ raised = None
    /\ ~placed

\* C16: is_valid_position(a, b) is true exactly when 0 <= a <= 4 and
\* 0 <= b <= 4, negative values and values of 5 and above included; the
\* position of a placed robot satisfies it.
C16_IsValidPosition ==
    /\ \A a \in Coords, b \in Coords :
          is_valid_position(a, b) <=> (0 <= a /\ a <= 4 /\ 0 <= b /\ b <= 4)
    /\ is_valid_position(0, 0) /\ is_valid_position(4, 4)
    /\ \A v \in OnTable :
          /\ ~is_valid_position(5, v) /\ ~is_valid_position(v, 5)
          /\ ~is_valid_position(-1, v) /\ ~is_valid_position(v, -1)
    /\ placed => is_valid_position(x[1], y[1])

\* the corner (4,4) accepted by PLACE 4,4,NORTH
C16_Witness ==
    /\ Processed({PlaceLine(4, 4, "NORTH")})
    /\ placed /\ x = Some(4) /\ y = Some(4) /\ direction = Some("NORTH")

\* lines whose tag is written in lower or mixed case
LowerMove   == <<"m", "o", "v", "e">>
LowerLeft   == <<"l", "e", "f", "t">>
MixedRight  == <<"r", "I", "G", "H", "T">>
MixedReport == <<"R", "e", "p", "o", "r", "t">>
LowerPlace  == <<"p", "l", "a", "c", "e", " ", "1", ",", "1", ",", "N", "O", "R", "T", "H">>
LowerPlaceWest == <<"p", "l", "a", "c", "e", " ", "2", ",", "3", ",", "w", "e", "s", "t">>

LowerTagLines ==
    { LowerMove, LowerLeft, MixedRight, MixedReport, LowerPlace, LowerPlaceWest }

\* C15 as stated: process_command given a line whose tag is in lower or mixed
\* case acts and returns as for the line with the tag in upper case.
C15_ProcessUppercasesTag ==
    [][ /\ ProcessedNext({LowerMove}) => (move /\ result' = None)
        /\ ProcessedNext({LowerLeft}) => (rotate(FALSE) /\ result' = None)
        /\ ProcessedNext({MixedRight}) => (rotate(TRUE) /\ result' = None)
        /\ ProcessedNext({MixedReport}) => (result' = Some(report) /\ UNCHANGED robot)
        /\ ProcessedNext({LowerPlace}) => (place(1, 1, "NORTH") /\ result' = None) ]_vars

\* C15 amended: the read loop upper-cases the whole line before the call, so
\* a line read by main with its tag in lower or mixed case acts and returns
\* as the upper-case line; process_command itself compares the tag as
\* written and answers such a line with "Invalid command".
C15_MainUppercasesLine ==
    [][ /\ line' = Some(LowerMove)
             => (command' = Some(MOVE) /\ move /\ result' = None)
        /\ line' = Some(LowerLeft)
             => (command' = Some(LEFT) /\ rotate(FALSE) /\ result' = None)
        /\ line' = Some(MixedRight)
             => (command' = Some(RIGHT) /\ rotate(TRUE) /\ result' = None)
        /\ line' = Some(MixedReport)
             => (command' = Some(REPORT) /\ result' = Some(report) /\ UNCHANGED robot)
        /\ line' = Some(LowerPlace)
             => (command' = Some(PlaceLine(1, 1, "NORTH"))
                 /\ place(1, 1, "NORTH") /\ result' = None)
        /\ line' = Some(LowerPlaceWest)
             => (command' = Some(PlaceLine(2, 3, "WEST"))
                 /\ place(2, 3, "WEST") /\ result' = None)
        /\ ProcessedNext(LowerTagLines)
             => (result' = Some(InvalidCommand) /\ UNCHANGED robot) ]_vars

\* the read loop after the line "move" moved a robot to (2,1) facing NORTH
C15_Witness ==
    /\ pc = "loop"
    /\ line = Some(LowerMove)
    /\ command = Some(MOVE)
    /\ placed /\ x = Some(2) /\ y = Some(1) /\ direction = Some("NORTH")
    /\ result = None

\* the input lines that are EXIT after strip() and upper()
ExitLines == { EXIT, <<"e", "x", "i", "t">>, <<" ", "E", "X", "I", "T", " ">> }

\* C19: in the read loop every line before the first EXIT line is handed to
\* the interpreter and the loop goes on, whatever the line; only an EXIT
\* line ends the loop.
C19_OnlyExitEndsLoop ==
    [][ (pc = "loop" /\ line' # None)
          => /\ line'[1] \in ExitLines => pc' = "exited"
             /\ line'[1] \notin ExitLines => (pc' = "loop" /\ raised' = None) ]_vars

\* the robot before the i-th call of the log, the robot now, and the robot
\* after the j-th call of the log
Before(i) ==
    [x |-> log[i].x, y |-> log[i].y,
     direction |-> log[i].direction, placed |-> log[i].placed]
Current == [x |-> x, y |-> y, direction |-> direction, placed |-> placed]
After(j) == IF j = Len(log) THEN Current ELSE Before(j + 1)

\* calls i .. i+n-1 of the log are all the command c
SameTurns(i, n, c) ==
    /\ i + n - 1 <= Len(log)
    /\ \A k \in i..(i + n - 1) : log[k].command = c

\* C17: for a placed robot in any position and orientation, four
\* consecutive RIGHT commands, and four consecutive LEFT commands, return
\* the robot to exactly its original state; one, two or three rotations in
\* the same sense never return the original orientation.
C17_FourRotations ==
    \A i \in 1..Len(log), c \in {LEFT, RIGHT} :
        Before(i).placed =>
            /\ SameTurns(i, 4, c) => After(i + 3) = Before(i)
            /\ \A n \in 1..3 :
                   SameTurns(i, n, c)
                       => After(i + n - 1).direction # Before(i).direction

\* PLACE 2,3,WEST then four RIGHTs: the robot is at (2,3) facing WEST again
C17_Witness ==
    /\ Len(log) = 5
    /\ log[1].command = PlaceLine(2, 3, "WEST")
    /\ SameTurns(2, 4, RIGHT)
    /\ Before(3).direction = Some("NORTH")
    /\ Current = [x |-> Some(2), y |-> Some(3),
                  direction |-> Some("WEST"), placed |-> TRUE]

\* C20: in every state, placed or unplaced, LEFT followed by RIGHT, and
\* RIGHT followed by LEFT, leaves position, orientation and placed flag as
\* they were before the pair.
C20_LeftRightInverse ==
    \A i \in 1..(Len(log) - 1) :
        (<<log[i].command, log[i + 1].command>> \in {<<LEFT, RIGHT>>, <<RIGHT, LEFT>>})
            => After(i + 1) = Before(i)

\* PLACE 4,0,SOUTH, LEFT (facing EAST), RIGHT: facing SOUTH at (4,0) again
C20_Witness ==
    /\ Len(log) = 3
    /\ log[1].command = PlaceLine(4, 0, "SOUTH")
    /\ log[2].command = LEFT
    /\ log[3].command = RIGHT
    /\ Before(3).direction = Some("EAST")
    /\ Current = [x |-> Some(4), y |-> Some(0),
                  direction |-> Some("SOUTH"), placed |-> TRUE]

Scenario1 == << PlaceLine(1, 2, "EAST"), MOVE, MOVE, LEFT, MOVE, REPORT >>
Scenario2 == << PlaceLine(0, 0, "NORTH"), MOVE, REPORT >>
Report33North == <<"3", ",", "3", ",", "N", "O", "R", "T", "H">>
Report01North == <<"0", ",", "1", ",", "N", "O", "R", "T", "H">>

\* the first n commands of the log
Commands(n) == [k \in 1..n |-> log[k].command]

\* C18: on a fresh robot, PLACE 1,2,EAST, MOVE, MOVE, LEFT, MOVE, REPORT
\* returns nothing for the first five commands and "3,3,NORTH" for REPORT,
\* and PLACE 0,0,NORTH, MOVE, REPORT ends with "0,1,NORTH".
C18_Scenarios ==
    /\ (Len(log) >= 6 /\ Commands(6) = Scenario1)
           => /\ \A k \in 1..5 : log[k].result = None
              /\ log[6].result = Some(Report33North)
    /\ (Len(log) >= 3 /\ Commands(3) = Scenario2)
           => log[3].result = Some(Report01North)

\* the first scenario has just been run to its end
C18_Witness ==
    /\ Len(log) = 6
    /\ Commands(6) = Scenario1
    /\ Current = [x |-> Some(3), y |-> Some(3),
                  direction |-> Some("NORTH"), placed |-> TRUE]
    /\ result = Some(Report33North)

=============================================================================
